---- MODULE Spec2Model ----
(***************************************************************************)
(* k-means clustering (dataset.py, cluster.py, algorithm.py).              *)
(*                                                                         *)
(* One Dataset and at most one Algorithm over it.  A coordinate is an      *)
(* exact rational with denominator Scale, stored as its numerator: the    *)
(* dataset point (1.0,) is <<Scale>>, the centroid (0.5,) is <<Scale/2>>.  *)
(* Scale is a common multiple of every possible member count, so the mean  *)
(* sum/len of dataset points is again a numerator.  Indices are the        *)
(* program's 0-based indices; a Python list is a sequence.                 *)
(* A call that raises ends with ret naming the exception and with the      *)
(* state the code had reached when it raised.                              *)
(***************************************************************************)
EXTENDS Integers, Sequences, FiniteSets, TLC

VARIABLES dimension, contents, built, cluster, op, arg, ret, upd, rets

vars == <<dimension, contents, built, cluster, op, arg, ret, upd, rets>>

\* ---------------------------------------------------------------- bounds
MaxPoints == 3      \* most points a dataset is built up to
MaxDim == 2         \* largest dimension and point length
MaxK == 2           \* largest k and longest seed list passed to Algorithm
MaxSteps == 2       \* largest maxstep passed to run

\* numpy.allclose defaults: rtol = 1/RtolInv, atol = 1/AtolInv
RtolInv == 100000
AtolInv == 100000000

RECURSIVE Gcd(_, _)
Gcd(a, b) == IF b = 0 THEN a ELSE Gcd(b, a % b)

RECURSIVE LcmUpTo(_)
LcmUpTo(n) == IF n <= 1 THEN 1 ELSE LET l == LcmUpTo(n - 1) IN (l * n) \div Gcd(l, n)

\* the dataset of the four-point scenario, as real values
Scenario == <<0, 1, 10, 11>>

Scale == LcmUpTo(IF MaxPoints > Len(Scenario) THEN MaxPoints ELSE Len(Scenario))

Abs(x) == IF x < 0 THEN -x ELSE x

Range(s) == {s[i] : i \in 1..Len(s)}

RECURSIVE SumSeq(_)
SumSeq(s) == IF s = <<>> THEN 0 ELSE Head(s) + SumSeq(Tail(s))

\* --------------------------------------------------------------- inputs
\* coordinates a point of the given length may have (real values)
Near1 == {0, 10}
Far1 == {100000, 100002}

\* points of the given length: on the line, the near ones and the far ones;
\* in more dimensions, (1, 0, ..) and (0, 1, ..)
Points(len) ==
    IF len = 1
    THEN {<<x * Scale>> : x \in Near1 \cup Far1}
    ELSE {[i \in 1..len |-> IF i = j THEN Scale ELSE 0] : j \in 1..2}

\* The points of one length in a dataset are all near or all far, so that the
\* square of a difference of two coordinates stays inside TLC's integers.
SameRegion(p, q) ==
    Len(p) = Len(q) => ((p[1] > 11 * Scale) <=> (q[1] > 11 * Scale))

OneRegion(c) == \A i, j \in 1..Len(c) : SameRegion(c[i], c[j])

AllPoints == UNION {Points(len) : len \in 1..MaxDim}

SeqsUpTo(S, n) == UNION {[1..m -> S] : m \in 0..n}

\* ------------------------------------------------------------ dataset.py
getSize(c) == Len(c)

getPoint(c, i) == c[i + 1]

\* is_point_list(value) for a list of numeric tuples: all of one length
is_point_list(value) == \A i \in 1..Len(value) : Len(value[i]) = Len(value[1])


\* is_point(point) and len(point) == self.getDimension(); every modelled
\* point is a tuple of numbers, so only the length can fail
addPointPre(dim, point) == Len(point) = dim

addPoint(c, point) == Append(c, point)

\* ------------------------------------------------------------ cluster.py
\* Cluster.__init__: the assert, then centroid and an empty index list
ClusterPre(dim, centroid) == Len(centroid) = dim

Cluster(centroid) == [centroid |-> centroid, indices |-> <<>>]

addIndex(cl, index, c) ==
    IF ~(index >= 0 /\ index < getSize(c))
    THEN [cl |-> cl, exc |-> "AssertionError"]
    ELSE IF index \in Range(cl.indices)
         THEN [cl |-> cl, exc |-> ""]
         ELSE [cl |-> [cl EXCEPT !.indices = Append(@, index)], exc |-> ""]

\* clear() that forgets to empty the list
clearKept(cl) == cl

clear(cl) == [cl EXCEPT !.indices = <<>>]

getContents(cl, c) == [i \in 1..Len(cl.indices) |-> getPoint(c, cl.indices[i])]

\* The exact square root of n, as the pair <<r, n - r*r>> with r the integer
\* part: two roots are equal iff the pairs are, and ordered as the pairs are
\* ordered, first by r, then by the remainder.
RECURSIVE IsqrtIter(_, _, _)
IsqrtIter(n, lo, hi) ==
    IF hi - lo <= 1 THEN lo
    ELSE IF ((lo + hi) \div 2) * ((lo + hi) \div 2) <= n
         THEN IsqrtIter(n, (lo + hi) \div 2, hi)
         ELSE IsqrtIter(n, lo, (lo + hi) \div 2)

RootPair(n, r) == <<r, n - r * r>>

Root(n) == RootPair(n, IsqrtIter(n, 0, IF n + 1 < 46341 THEN n + 1 ELSE 46341))

RootLeq(a, b) == a[1] < b[1] \/ (a[1] = b[1] /\ a[2] <= b[2])

distance(cl, point, dim) ==
    IF Len(point) # dim
    THEN [exc |-> "AssertionError", val |-> <<0, 0>>]
    ELSE IF Len(cl.centroid) # Len(point)
         THEN [exc |-> "IndexError", val |-> <<0, 0>>]
         ELSE [exc |-> "",
               val |-> Root(SumSeq([i \in 1..Len(point) |->
                           (point[i] - cl.centroid[i]) * (point[i] - cl.centroid[i])]))]

\* numpy.allclose on one coordinate: |old - new| <= atol + rtol * |new|, that
\* is d * AtolInv <= Scale + a * (AtolInv / RtolInv) on numerators, with
\* a = q * RtolInv + r split off so that no product leaves the integers
close(old, new) ==
    LET d == Abs(old - new)
        a == Abs(new)
        q == a \div RtolInv
        r == a % RtolInv
    IN d <= q \/ (d = q + 1 /\ AtolInv <= Scale + r * (AtolInv \div RtolInv))

allclose(old, new) == \A i \in 1..Len(new) : close(old[i], new[i])

\* recomputation[i]: coordinate i of every member that has one, in order
RECURSIVE column(_, _)
column(pts, i) ==
    IF pts = <<>> THEN <<>>
    ELSE IF i <= Len(Head(pts))
         THEN <<Head(pts)[i]>> \o column(Tail(pts), i)
         ELSE column(Tail(pts), i)

\* the mean with the count off by one
meanOff(col) == SumSeq(col) \div (Len(col) + 1)

mean(col) == SumSeq(col) \div Len(col)

\* update() that compares the centroid with itself once it is stored
setCentroidSelf(cl, recomputation) ==
    [cl |-> [cl EXCEPT !.centroid = recomputation],
     ret |-> allclose(recomputation, recomputation),
     exc |-> ""]

\* the end of update(): store the new centroid, compare it with the old one
setCentroid(cl, recomputation) ==
    [cl |-> [cl EXCEPT !.centroid = recomputation],
     ret |-> allclose(cl.centroid, recomputation),
     exc |-> ""]

\* update() with pts the value of self.getContents()
updateOf(cl, pts) ==
    IF Len(pts) = 0
    THEN [cl |-> cl, ret |-> TRUE, exc |-> ""]
    ELSE IF \E j \in 1..Len(pts) : Len(pts[j]) > Len(pts[1])
         THEN [cl |-> cl, ret |-> FALSE, exc |-> "IndexError"]
         ELSE setCentroid(cl, [i \in 1..Len(pts[1]) |-> mean(column(pts, i))])

update(cl, c) == updateOf(cl, getContents(cl, c))

\* ---------------------------------------------------------- algorithm.py
valid_seeds(value, size) ==
    \A i \in 1..Len(value) :
        /\ value[i] >= 0
        /\ value[i] <= size - 1
        /\ Cardinality({j \in 1..Len(value) : value[j] = value[i]}) <= 1

\* Algorithm.__init__ with a seed list (given, or drawn by random.sample)
initPre(dim, c, kk, seeds, given) ==
    /\ kk > 0
    /\ kk <= getSize(c)
    /\ given => valid_seeds(seeds, getSize(c))
    /\ \A i \in 1..Len(seeds) : ClusterPre(dim, getPoint(c, seeds[i]))

init(c, seeds) == [i \in 1..Len(seeds) |-> Cluster(getPoint(c, seeds[i]))]

\* min(distances.values()) and the first key that has it
minimum(distances) ==
    CHOOSE v \in {distances[j].val : j \in 1..Len(distances)} :
        \A j \in 1..Len(distances) : RootLeq(v, distances[j].val)

\* ties broken in favour of the last cluster
lastKey(distances, least) ==
    CHOOSE j \in 1..Len(distances) :
        /\ distances[j].val = least
        /\ \A i \in j + 1..Len(distances) : distances[i].val # least

firstKey(distances, least) ==
    CHOOSE j \in 1..Len(distances) :
        /\ distances[j].val = least
        /\ \A i \in 1..j - 1 : distances[i].val # least

firstRaised(distances) ==
    CHOOSE j \in 1..Len(distances) :
        /\ distances[j].exc # ""
        /\ \A i \in 1..j - 1 : distances[i].exc = ""

\* _nearest() after its assert, with the distances dictionary filled in
nearestOf(distances) ==
    IF \E j \in 1..Len(distances) : distances[j].exc # ""
    THEN [exc |-> distances[firstRaised(distances)].exc, idx |-> 0]
    ELSE IF Len(distances) = 0
         THEN [exc |-> "ValueError", idx |-> 0]
         ELSE [exc |-> "", idx |-> firstKey(distances, minimum(distances))]

\* the position in the cluster list of the cluster returned
_nearest(cls, point, dim) ==
    IF Len(point) # dim
    THEN [exc |-> "AssertionError", idx |-> 0]
    ELSE nearestOf([j \in 1..Len(cls) |-> distance(cls[j], point, dim)])

RECURSIVE assign(_, _, _, _)

\* .addIndex(index) on the cluster found, then the next index
assignAdded(cls, c, dim, index, j, a) ==
    IF a.exc # ""
    THEN [cluster |-> cls, exc |-> a.exc]
    ELSE assign([cls EXCEPT ![j] = a.cl], c, dim, index + 1)

assignTo(cls, c, dim, index, n) ==
    IF n.exc # ""
    THEN [cluster |-> cls, exc |-> n.exc]
    ELSE assignAdded(cls, c, dim, index, n.idx, addIndex(cls[n.idx], index, c))

\* the second loop of _partition, from index on
assign(cls, c, dim, index) ==
    IF index >= Len(c)
    THEN [cluster |-> cls, exc |-> ""]
    ELSE assignTo(cls, c, dim, index, _nearest(cls, getPoint(c, index), dim))

_partition(cls, c, dim) == assign([j \in 1..Len(cls) |-> clear(cls[j])], c, dim, 0)

RECURSIVE updateLoop(_, _, _, _, _)

\* _update that stops at the first cluster that changed
updatedShort(cls, c, j, temp, seen, u) ==
    IF u.exc # ""
    THEN [cluster |-> cls, ret |-> temp, upd |-> seen, exc |-> u.exc]
    ELSE IF ~u.ret
         THEN [cluster |-> [cls EXCEPT ![j] = u.cl], ret |-> FALSE,
               upd |-> Append(seen, u.ret), exc |-> ""]
         ELSE updateLoop([cls EXCEPT ![j] = u.cl], c, j + 1, temp, Append(seen, u.ret))

updated(cls, c, j, temp, seen, u) ==
    IF u.exc # ""
    THEN [cluster |-> cls, ret |-> temp, upd |-> seen, exc |-> u.exc]
    ELSE updateLoop([cls EXCEPT ![j] = u.cl], c, j + 1, temp /\ u.ret, Append(seen, u.ret))

\* the loop of _update, from cluster j on
updateLoop(cls, c, j, temp, seen) ==
    IF j > Len(cls)
    THEN [cluster |-> cls, ret |-> temp, upd |-> seen, exc |-> ""]
    ELSE updated(cls, c, j, temp, seen, update(cls[j], c))

_update(cls, c) == updateLoop(cls, c, 1, TRUE, <<>>)

\* step() that updates the centroids before it repartitions
swappedPartitioned(u, p) ==
    [cluster |-> p.cluster,
     ret |-> IF p.exc # "" THEN p.exc ELSE IF u.ret THEN "True" ELSE "False",
     upd |-> u.upd]

swappedUpdated(u, c, dim) == swappedPartitioned(u, _partition(u.cluster, c, dim))

stepSwapped(cls, c, dim) == swappedUpdated(_update(cls, c), c, dim)

stepUpdated(u) ==
    [cluster |-> u.cluster,
     ret |-> IF u.exc # "" THEN u.exc ELSE IF u.ret THEN "True" ELSE "False",
     upd |-> u.upd]

stepPartitioned(p, c) ==
    IF p.exc # ""
    THEN [cluster |-> p.cluster, ret |-> p.exc, upd |-> <<>>]
    ELSE stepUpdated(_update(p.cluster, c))

step(cls, c, dim) == stepPartitioned(_partition(cls, c, dim), c)

RECURSIVE runLoop(_, _, _, _, _, _)

stepped(c, dim, maxstep, i, seen, s) ==
    IF s.ret = "True"
    THEN [cluster |-> s.cluster, ret |-> "None", rets |-> Append(seen, s.ret)]
    ELSE IF s.ret = "False"
         THEN runLoop(s.cluster, c, dim, maxstep, i + 1, Append(seen, s.ret))
         ELSE [cluster |-> s.cluster, ret |-> s.ret, rets |-> Append(seen, s.ret)]

\* run() that loops once too often
runLoopOff(cls, c, dim, maxstep, i, seen) ==
    IF i > maxstep
    THEN [cluster |-> cls, ret |-> "None", rets |-> seen]
    ELSE stepped(c, dim, maxstep, i, seen, step(cls, c, dim))

\* the for loop of run, from iteration i on
runLoop(cls, c, dim, maxstep, i, seen) ==
    IF i >= maxstep
    THEN [cluster |-> cls, ret |-> "None", rets |-> seen]
    ELSE stepped(c, dim, maxstep, i, seen, step(cls, c, dim))

run(cls, c, dim, maxstep) ==
    IF maxstep < 0
    THEN [cluster |-> cls, ret |-> "AssertionError", rets |-> <<>>]
    ELSE runLoop(cls, c, dim, maxstep, 0, <<>>)

\* ---------------------------------------------------------------- state
\* op, arg, ret: the last call, its argument (k of Algorithm, maxstep of
\* run) and how it ended: what it returned, or the exception it raised.
\* upd: what each Cluster.update() of the last step() returned.
\* rets: how each step() of the last run() ended.
Called(name, a, r, u, rs) ==
    /\ op' = name
    /\ arg' = a
    /\ ret' = r
    /\ upd' = u
    /\ rets' = rs

NoEngine ==
    /\ built = FALSE
    /\ cluster = <<>>
    /\ op = "Dataset"
    /\ arg = 0
    /\ ret = "None"
    /\ upd = <<>>
    /\ rets = <<>>

\* Dataset(dim, contents) with accepted arguments: dim > 0, and contents
\* None (<<>> here) or a list that is_point_list accepts.  is_point_list
\* raises IndexError on the empty list, so an accepted list is not empty.
Init ==
    /\ dimension \in 1..MaxDim
    /\ contents \in {c \in SeqsUpTo(AllPoints, MaxPoints) : is_point_list(c) /\ OneRegion(c)}
    /\ NoEngine

\* Dataset(1, contents) with the four points of the scenario in any order
InitScenario ==
    /\ dimension = 1
    /\ \E order \in [1..Len(Scenario) -> 1..Len(Scenario)] :
           /\ \A i, j \in 1..Len(Scenario) : order[i] = order[j] => i = j
           /\ contents = [i \in 1..Len(Scenario) |-> <<Scenario[order[i]] * Scale>>]
    /\ NoEngine

\* a call that raises adds nothing, whatever the size
AddPoint(point) ==
    /\ OneRegion(Append(contents, point))
    /\ IF addPointPre(dimension, point)
       THEN /\ Len(contents) < MaxPoints
            /\ contents' = addPoint(contents, point)
            /\ Called("addPoint", 0, "None", <<>>, <<>>)
       ELSE /\ contents' = contents
            /\ Called("addPoint", 0, "AssertionError", <<>>, <<>>)
    /\ UNCHANGED <<dimension, built, cluster>>

\* Algorithm(dset, kk, seeds); a call that raises constructs nothing
Construct(kk, seeds, given) ==
    /\ ~built
    /\ IF initPre(dimension, contents, kk, seeds, given)
       THEN /\ cluster' = init(contents, seeds)
            /\ built' = TRUE
            /\ Called("Algorithm", kk, "None", <<>>, <<>>)
       ELSE /\ UNCHANGED <<cluster, built>>
            /\ Called("Algorithm", kk, "AssertionError", <<>>, <<>>)
    /\ UNCHANGED <<dimension, contents>>

\* the seed lists tried: indices up to the first one out of range
AlgorithmSeeds ==
    \E kk \in 0..MaxK :
        \E seeds \in SeqsUpTo(0..getSize(contents), MaxK) : Construct(kk, seeds, TRUE)

\* seeds omitted: random.sample(range(size), kk) is any list of kk distinct
\* indices; with kk rejected by the assert nothing is drawn
AlgorithmRandom ==
    \E kk \in 0..MaxK :
        IF kk > 0 /\ kk <= getSize(contents)
        THEN \E seeds \in [1..kk -> 0..getSize(contents) - 1] :
                 /\ \A i, j \in 1..kk : seeds[i] = seeds[j] => i = j
                 /\ Construct(kk, seeds, FALSE)
        ELSE Construct(kk, <<>>, FALSE)

\* getClusters()[j - 1].addIndex(index), called by hand on a cluster of an
\* engine whose clusters are still empty
Added(j, a) ==
    /\ cluster' = [cluster EXCEPT ![j] = a.cl]
    /\ Called("addIndex", 0, IF a.exc = "" THEN "None" ELSE a.exc, <<>>, <<>>)

AddIndex(j, index) ==
    /\ built
    /\ j \in 1..Len(cluster)
    /\ \A i \in 1..Len(cluster) : cluster[i].indices = <<>>
    /\ Added(j, addIndex(cluster[j], index, contents))
    /\ UNCHANGED <<dimension, contents, built>>

Stepped(s) ==
    /\ cluster' = s.cluster
    /\ Called("step", 0, s.ret, s.upd, <<>>)

Step ==
    /\ built
    /\ Stepped(step(cluster, contents, dimension))
    /\ UNCHANGED <<dimension, contents, built>>

Ran(maxstep, r) ==
    /\ cluster' = r.cluster
    /\ Called("run", maxstep, r.ret, <<>>, r.rets)

Run(maxstep) ==
    /\ built
    /\ Ran(maxstep, run(cluster, contents, dimension, maxstep))
    /\ UNCHANGED <<dimension, contents, built>>

Next ==
    \/ \E point \in AllPoints : AddPoint(point)
    \/ AlgorithmSeeds
    \/ AlgorithmRandom
    \/ \E j \in 1..MaxK : \E index \in 0..MaxPoints : AddIndex(j, index)
    \/ Step
    \/ \E maxstep \in -1..MaxSteps : Run(maxstep)

Spec == Init /\ [][Next]_vars

SpecScenario == InitScenario /\ [][Next]_vars

\* ---------------------------------------------------------------- claims
\* the last call was a step() that returned, or a run() that returned after
\* at least one step(): _partition() and _update() have both completed
Stepped1 ==
    \/ op = "step" /\ ret \in {"True", "False"}
    \/ op = "run" /\ ret = "None" /\ rets # <<>>

\* where index occurs: the pairs <<cluster, place in its index list>>
Places(cls, index) ==
    {pl \in (1..Len(cls)) \X (1..MaxPoints + Len(Scenario)) :
        /\ pl[2] <= Len(cls[pl[1]].indices)
        /\ cls[pl[1]].indices[pl[2]] = index}

\* coordinate i of the members of cl, in index order
Coordinate(cl, c, i) == [m \in 1..Len(cl.indices) |-> getPoint(c, cl.indices[m])[i]]

IsMean(cl, c) ==
    /\ Len(cl.centroid) = dimension
    /\ \A i \in 1..dimension :
           cl.centroid[i] * Len(cl.indices) = SumSeq(Coordinate(cl, c, i))

\* C1: after every _partition() that returns (hence after every step() that
\* returns), every dataset index 0..getSize()-1 occurs at exactly one place:
\* in one cluster, once.
PartitionComplete ==
    Stepped1 => \A index \in 0..getSize(contents) - 1 :
                    Cardinality(Places(cluster, index)) = 1

PartitionCompleteWitness ==
    /\ op = "step"
    /\ ret = "False"
    /\ Len(contents) = MaxPoints
    /\ Len(cluster) = 2
    /\ \A j \in 1..2 : cluster[j].indices # <<>>

\* the points _nearest is tried on: those of the dataset dimension a dataset
\* may hold, and points half way between two of them
Halfway(len) ==
    IF len = 1
    THEN {<<5 * Scale>>, <<100001 * Scale>>}
    ELSE {[i \in 1..len |-> x] : x \in {0, Scale}}

Probes ==
    {point \in Points(dimension) \cup Halfway(dimension) :
        OneRegion(Append(contents, point))}

\* C2: with at least one cluster, _nearest(point) returns for every point of
\* the dataset dimension a cluster whose distance to the point is at most
\* that of every cluster, and strictly less than that of every cluster
\* before it in the list.
NearestIsFirstMinimum ==
    (built /\ Len(cluster) > 0) =>
        \A point \in Probes :
            LET n == _nearest(cluster, point, dimension)
            IN /\ n.exc = ""
               /\ n.idx \in 1..Len(cluster)
               /\ \A j \in 1..Len(cluster) :
                      /\ RootLeq(distance(cluster[n.idx], point, dimension).val,
                                 distance(cluster[j], point, dimension).val)
                      /\ j < n.idx =>
                             distance(cluster[j], point, dimension).val
                                 # distance(cluster[n.idx], point, dimension).val

\* a tie between the two clusters, after the centroids have moved
NearestIsFirstMinimumWitness ==
    /\ Stepped1
    /\ Len(cluster) = 2
    /\ \E point \in Probes :
           /\ distance(cluster[1], point, dimension).val
                  = distance(cluster[2], point, dimension).val
           /\ _nearest(cluster, point, dimension).idx = 1
           /\ cluster[1].centroid # cluster[2].centroid

\* C3: a run(maxstep) that returns has called step() at most maxstep times,
\* every call but the last returned False, without a True there were exactly
\* maxstep calls, and run(0) calls nothing and leaves every cluster as it was.
RunBound ==
    [][(op' = "run" /\ ret' = "None") =>
          /\ Len(rets') <= arg'
          /\ \A i \in 1..Len(rets') - 1 : rets'[i] = "False"
          /\ (\A i \in 1..Len(rets') : rets'[i] # "True") => Len(rets') = arg'
          /\ arg' = 0 => (rets' = <<>> /\ cluster' = cluster)]_vars

RunBoundWitness ==
    /\ op = "run"
    /\ ret = "None"
    /\ arg = MaxSteps
    /\ rets = [i \in 1..MaxSteps |-> "False"]

Indices(cls) == [j \in 1..Len(cls) |-> cls[j].indices]

\* C4, as claimed: the step() that immediately follows a step() that
\* returned True returns True.
StepIdempotent ==
    [][(op = "step" /\ ret = "True" /\ op' = "step") => ret' = "True"]_vars

\* C4, amended: the step() that immediately follows a step() that returned
\* True returns True when it leaves every cluster with the index list it had.
StepIdempotentSamePartition ==
    [][(op = "step" /\ ret = "True" /\ op' = "step" /\ Indices(cluster') = Indices(cluster))
          => ret' = "True"]_vars

\* after a step() that returned True with two clusters that have members,
\* one more step() keeps the partition and returns True
StepIdempotentWitness ==
    /\ op = "step"
    /\ ret = "True"
    /\ Len(cluster) = 2
    /\ \A j \in 1..2 : cluster[j].indices # <<>>
    /\ Indices(step(cluster, contents, dimension).cluster) = Indices(cluster)
    /\ step(cluster, contents, dimension).ret = "True"

ScenarioContents == [i \in 1..Len(Scenario) |-> <<Scenario[i] * Scale>>]

\* Algorithm(dset, 2, [0, 2]) over the scenario has just been constructed
ScenarioSeeded ==
    /\ contents = ScenarioContents
    /\ op = "Algorithm"
    /\ ret = "None"
    /\ arg = 2
    /\ cluster = init(contents, <<0, 2>>)

\* clusters {0,1} at 0.5 and {2,3} at 10.5
ScenarioResult(cls) ==
    /\ Len(cls) = 2
    /\ Range(cls[1].indices) = {0, 1}
    /\ Len(cls[1].indices) = 2
    /\ cls[1].centroid = <<Scale \div 2>>
    /\ Range(cls[2].indices) = {2, 3}
    /\ Len(cls[2].indices) = 2
    /\ cls[2].centroid = <<10 * Scale + Scale \div 2>>

\* C5, as claimed: on (0,), (1,), (10,), (11,) with k = 2 and seeds [0, 2]
\* the first step() leaves {0,1} at 0.5 and {2,3} at 10.5, and returns True.
ScenarioStepTrue ==
    [][(ScenarioSeeded /\ op' = "step") => (ScenarioResult(cluster') /\ ret' = "True")]_vars

\* C5, amended: the same clusters and centroids, and the first step()
\* returns False, both centroids having moved.
ScenarioStepFalse ==
    [][(ScenarioSeeded /\ op' = "step") => (ScenarioResult(cluster') /\ ret' = "False")]_vars

ScenarioStepWitness ==
    /\ contents = ScenarioContents
    /\ op = "step"
    /\ ret = "False"
    /\ upd = <<FALSE, FALSE>>
    /\ ScenarioResult(cluster)

\* C6: a constructor call Algorithm(dset, k, seeds) that returns leaves
\* exactly k clusters, and no step() or run() changes their number.
ClusterCountIsK ==
    [][/\ (op' = "Algorithm" /\ ret' = "None") => Len(cluster') = arg'
       /\ built => Len(cluster') = Len(cluster)]_vars

\* C7: a call that fails a precondition check (raises AssertionError) leaves
\* the dataset contents and every cluster's members and centroid as before.
FailureLeavesState ==
    [][ret' = "AssertionError" => (contents' = contents /\ cluster' = cluster)]_vars

\* C8: every stored point has length getDimension().
PointsHaveDimension == \A i \in 1..Len(contents) : Len(contents[i]) = dimension

\* C9: after update() on a cluster with at least one member, each coordinate
\* of its centroid times the member count is the sum of that coordinate over
\* the members.
CentroidIsMean ==
    Stepped1 => \A j \in 1..Len(cluster) :
                    cluster[j].indices # <<>> => IsMean(cluster[j], contents)

\* a centroid between two different members, in a dataset of dimension two
CentroidIsMeanWitness ==
    /\ op = "step"
    /\ ret = "False"
    /\ dimension > 1
    /\ \E j \in 1..Len(cluster) :
           /\ Len(cluster[j].indices) > 1
           /\ \A m \in 1..Len(cluster[j].indices) :
                  getPoint(contents, cluster[j].indices[m]) # cluster[j].centroid

\* C10: a step() that returns has called update() on every cluster: each
\* return value is recorded, each cluster with members holds their mean,
\* each value is True exactly for a cluster without members or with a new
\* centroid close to the old one, and step() returns True exactly when every
\* value is True.
UpdateCallsAll ==
    [][(op' = "step" /\ ret' \in {"True", "False"}) =>
          /\ Len(upd') = Len(cluster')
          /\ \A j \in 1..Len(cluster') :
                 /\ cluster'[j].indices # <<>> => IsMean(cluster'[j], contents)
                 /\ upd'[j] <=> \/ cluster'[j].indices = <<>>
                                \/ allclose(cluster[j].centroid, cluster'[j].centroid)
          /\ ret' = "True" <=> \A j \in 1..Len(upd') : upd'[j]]_vars

\* the first cluster changed and the second was still recomputed and moved
UpdateCallsAllWitness ==
    /\ op = "step"
    /\ ret = "False"
    /\ upd = <<FALSE, FALSE>>
    /\ Len(cluster) = 2
    /\ \A j \in 1..2 : Len(cluster[j].indices) > 1

====
